---- MODULE Spec2Model ----
(***************************************************************************)
(* MystReferenceResolver (myst_parser/sphinx_ext/myst_refs.py): the        *)
(* post-transform that resolves "myst" pending_xref nodes of a doctree.    *)
(*                                                                         *)
(* Strings (targets, docnames, registry keys, role names) are sequences of *)
(* atoms: "/" "#" ":" "-" "." ".." and name or suffix atoms such as "g",   *)
(* "X", ".md".  docutils nodes are records with a tag.                     *)
(***************************************************************************)
EXTENDS Integers, Sequences, FiniteSets, TLC

\* number of pending_xref nodes the traversal of one document may yield
MaxNodes == 2

-----------------------------------------------------------------------------
(* String helpers: str.lower, "in", rsplit, split, replace, os.path.*      *)

LowerAtom(a) == IF a = "X" THEN "x" ELSE a

Lower(s) == [k \in 1..Len(s) |-> LowerAtom(s[k])]

Contains(s, a) == \E k \in 1..Len(s) : s[k] = a

FirstIndex(s, a) == CHOOSE k \in 1..Len(s) : s[k] = a /\ \A j \in 1..(k-1) : s[j] # a

LastIndex(s, a) == CHOOSE k \in 1..Len(s) : s[k] = a /\ \A j \in (k+1)..Len(s) : s[j] # a

\* target.rsplit("#", 1) of a target that contains "#"
RSplitHash(s) ==
  LET k == LastIndex(s, "#")
  IN  [head |-> SubSeq(s, 1, k - 1), tail |-> SubSeq(s, k + 1, Len(s))]

RECURSIVE SplitOn(_, _)
SplitOn(s, sep) ==
  IF ~Contains(s, sep) THEN <<s>>
  ELSE LET k == FirstIndex(s, sep)
       IN  <<SubSeq(s, 1, k - 1)>> \o SplitOn(SubSeq(s, k + 1, Len(s)), sep)

RECURSIVE JoinOn(_, _)
JoinOn(comps, sep) ==
  IF comps = <<>> THEN <<>>
  ELSE IF Len(comps) = 1 THEN comps[1]
  ELSE comps[1] \o <<sep>> \o JoinOn(Tail(comps), sep)

\* str.replace(":", "-")
ReplaceColon(s) == [k \in 1..Len(s) |-> IF s[k] = ":" THEN "-" ELSE s[k]]

RECURSIVE NormComps(_, _, _)
NormComps(comps, new, abs) ==
  IF comps = <<>> THEN new
  ELSE LET c == Head(comps)
           rest == Tail(comps)
       IN  IF c = <<>> \/ c = <<".">> THEN NormComps(rest, new, abs)
           ELSE IF \/ c # <<"..">>
                   \/ (~abs /\ new = <<>>)
                   \/ (new # <<>> /\ new[Len(new)] = <<"..">>)
                THEN NormComps(rest, Append(new, c), abs)
           ELSE IF new # <<>> THEN NormComps(rest, SubSeq(new, 1, Len(new) - 1), abs)
           ELSE NormComps(rest, new, abs)

\* os.path.normpath (posix), its last lines: the leading slash, "." for an empty path
NormResult(abs, j) ==
  IF abs THEN <<"/">> \o j
  ELSE IF j = <<>> THEN <<".">>
  ELSE j

\* os.path.normpath (posix): lexical, no filesystem access
normpath(p) ==
  NormResult(p # <<>> /\ p[1] = "/",
             JoinOn(NormComps(SplitOn(p, "/"), <<>>, p # <<>> /\ p[1] = "/"), "/"))

\* os.path.join(a, b)
PathJoin(a, b) ==
  IF b # <<>> /\ b[1] = "/" THEN b
  ELSE IF a = <<>> \/ a[Len(a)] = "/" THEN a \o b
  ELSE a \o <<"/">> \o b

ExtAtoms == {".md", ".rst", ".txt"}

\* os.path.splitext
splitext(p) ==
  IF Len(p) > 1 /\ p[Len(p)] \in ExtAtoms /\ p[Len(p) - 1] # "/"
  THEN [root |-> SubSeq(p, 1, Len(p) - 1), ext |-> <<p[Len(p)]>>]
  ELSE [root |-> p, ext |-> <<>>]

\* sphinx.util.docname_join
docname_join(basedocname, docname) ==
  Tail(normpath(PathJoin(PathJoin(<<"/">> \o basedocname, <<"..">>), docname)))

-----------------------------------------------------------------------------
(* docutils nodes                                                          *)

NoneNode == [tag |-> "None"]

IsNone(n) == n.tag = "None"

Text(t) == [tag |-> "#text", text |-> t]

IsElement(n) == n.tag \notin {"None", "#text"}

Element(tag, classes, children) ==
  [tag |-> tag, classes |-> classes, children |-> children]

\* nodes.inline(rawsource, text, classes=...): a Text child only for a non-empty text
inline(text, classes) ==
  Element("inline", classes, IF text = <<>> THEN <<>> ELSE <<Text(text)>>)

\* Node.astext(): the text of the node's descendants, children from the k-th on
RECURSIVE astextFrom(_, _)
astextFrom(n, k) ==
  IF n.tag = "#text" THEN n.text
  ELSE IF k > Len(n.children) THEN <<>>
  ELSE astextFrom(n.children[k], 1) \o astextFrom(n, k + 1)

astext(n) == astextFrom(n, 1)

\* Element.extend(children)
Extend(n, children) == [n EXCEPT !.children = n.children \o children]

-----------------------------------------------------------------------------
(* The environment of one build: configuration, the standard domain's      *)
(* registries, the builder, the other domains and the missing-reference    *)
(* handlers.  The registries are fixed; the targets below hit or miss them. *)

DocA == <<"g", "/", "a">>
DocB == <<"g", "/", "b">>
DocC == <<"g", "/", "c">>
DocX == <<"g", "/", "X">>

\* env.all_docs
all_docs == {DocA, DocB, DocC, DocX}

\* env.titles[docname], through clean_astext
titles(docname) == <<"title">> \o docname

\* config.source_suffix
source_suffix == {<<".md">>, <<".rst">>}

\* env.doc2path(docname, base=False): the source path relative to the source dir
doc2path(docname) == docname \o <<".md">>

KeyX == <<"x">>
KeyBh == DocB \o <<".md", "#", "h">>
KeyAh == DocA \o <<".md", "#", "h">>

\* stddomain.labels: name -> (docname, labelid, sectname)
labels ==
  [k \in {KeyX, KeyBh, KeyAh} |->
     IF k = KeyX THEN [docname |-> DocB, labelid |-> <<"x-id">>, sectname |-> <<"Section", "x">>]
     ELSE IF k = KeyBh THEN [docname |-> DocB, labelid |-> <<"h">>, sectname |-> <<"Heading", "b">>]
     ELSE [docname |-> DocA, labelid |-> <<"h">>, sectname |-> <<"Heading", "a">>]]

\* stddomain.anonlabels: name -> (docname, labelid)
anonlabels ==
  [k \in DOMAIN labels |-> [docname |-> labels[k].docname, labelid |-> labels[k].labelid]]

\* stddomain.object_types, in iteration order
object_types == <<"term", "cmdoption">>

\* stddomain.role_for_objtype
role_for_objtype(objtype) == IF objtype = "cmdoption" THEN "option" ELSE objtype

\* stddomain.objects: (objtype, name) -> (docname, labelid)
objects ==
  [k \in {<<"term", <<"x">>>>, <<"cmdoption", <<"X">>>>} |->
     IF k[1] = "term" THEN [docname |-> DocB, labelid |-> <<"term-x">>]
     ELSE [docname |-> DocB, labelid |-> <<"cmdoption-X">>]]

\* documents for which builder.get_relative_uri raises NoUri
nouri_docs == {DocC}

\* sphinx.util.nodes.make_refnode: [exc, node]
make_refnode(fromdocname, todocname, targetid, child) ==
  IF fromdocname = todocname /\ targetid # <<>>
  THEN [exc |-> "none",
        node |-> [tag |-> "reference", refid |-> targetid, refuri |-> <<>>,
                  children |-> <<child>>]]
  ELSE IF todocname \in nouri_docs
  THEN [exc |-> "NoUri", node |-> NoneNode]
  ELSE [exc |-> "none",
        node |-> [tag |-> "reference", refid |-> <<>>,
                  refuri |-> IF targetid # <<>> THEN todocname \o <<"#">> \o targetid
                             ELSE todocname,
                  children |-> <<child>>]]

-----------------------------------------------------------------------------
(* Placeholders (addnodes.pending_xref) and the targets of the build        *)

TgtX      == <<"X">>                                  \* label, document, two std objects, domains
TgtAnchor == <<".", "/", "b", ".md", "#", "h">>       \* heading anchor of another document
TgtSelf   == <<"#", "h">>                             \* heading anchor of the referring document
TgtDocMd  == <<"b", ".md">>                           \* document name with a source suffix
TgtNoUri  == <<"c">>                                  \* document the builder has no URI for
TgtNone   == <<"zzz">>                                \* matches nothing, no handler claims it
TgtExt2   == <<"e2">>                                 \* claimed by the second handler
TgtExt12  == <<"e12">>                                \* claimed by both handlers
TgtHNoUri == <<"hn">>                                 \* a handler raises NoUri
TgtHBoom  == <<"hb">>                                 \* a handler raises another exception
TgtDNoUri == <<"dn">>                                 \* a domain raises NoUri after candidates
TgtDBoom  == <<"db">>                                 \* a domain raises another exception
TgtRole   == <<"t">>                                  \* found by per-role lookups only

Targets ==
  {TgtX, TgtAnchor, TgtSelf, TgtDocMd, TgtNoUri, TgtNone, TgtExt2, TgtExt12,
   TgtHNoUri, TgtHBoom, TgtDNoUri, TgtDBoom, TgtRole}

\* the nested content of "[**b** t](target)"
NestedContent == <<Element("strong", <<>>, <<Text(<<"b">>)>>), Text(<<"t">>)>>

\* the pending_xref the parser builds for "[text](target)": an inline child that
\* holds the nested content, refexplicit set when there is any
pending_xref(reftype, target, refexplicit, refwarn) ==
  [tag |-> "pending_xref", reftype |-> reftype, reftarget |-> target,
   refdoc |-> DocA, refdomain |-> "None", refexplicit |-> refexplicit,
   refwarn |-> refwarn,
   children |-> <<Element("inline", <<<<"xref">>, <<"myst">>>>,
                          IF refexplicit THEN NestedContent ELSE <<>>)>>]

Placeholders ==
  {pending_xref("myst", t, e, w) : t \in Targets, e \in BOOLEAN, w \in BOOLEAN}
    \cup {pending_xref("any", TgtX, FALSE, TRUE)}

-----------------------------------------------------------------------------
(* The domains other than "std" (env.domains.values(), in order) and the    *)
(* missing-reference handlers                                               *)

Domains ==
  << [name |-> "std", builtin |-> TRUE,  implements |-> TRUE,  roles |-> <<>>],
     [name |-> "py",  builtin |-> TRUE,  implements |-> TRUE,  roles |-> <<"class">>],
     [name |-> "old", builtin |-> TRUE,  implements |-> FALSE, roles |-> <<"o">>],
     [name |-> "ext", builtin |-> FALSE, implements |-> FALSE, roles |-> <<"r1", "r2">>] >>

\* domain.__module__.startswith("sphinx.")
ModuleStartsWithSphinx(domain) == domain.builtin

\* a resolved node a domain builds around the content node it was handed
DomainRef(domain, role, contnode) ==
  [tag |-> "reference", refid |-> <<>>, refuri |-> <<domain.name, "/", role>>,
   children |-> <<contnode>>]

\* a resolved node a domain labels with its own display text
DomainOwnRef(domain, role) ==
  [tag |-> "reference", refid |-> <<>>, refuri |-> <<domain.name, "/", role>>,
   children |-> <<inline(<<domain.name, "object">>, <<>>)>>]

\* a resolved node whose only child is a Text
DomainTextRef(domain, role) ==
  [tag |-> "reference", refid |-> <<>>, refuri |-> <<domain.name, "/", role>>,
   children |-> <<Text(<<domain.name, "object">>)>>]

\* domain.resolve_any_xref(env, refdoc, builder, target, node, contnode):
\* [exc, res] with res a list of (role name, node)
resolve_any_xref(domain, target, contnode) ==
  IF ~domain.implements THEN [exc |-> "NotImplemented", res |-> <<>>]
  ELSE IF domain.name = "py" /\ target \in {TgtX, TgtAnchor}
  THEN [exc |-> "none",
        res |-> << [name |-> <<"py", ":", "class">>,
                    node |-> DomainRef(domain, "class", contnode)] >>]
  ELSE IF domain.name = "py" /\ target = TgtDNoUri
  THEN [exc |-> "none",
        res |-> << [name |-> <<"py", ":", "func">>,
                    node |-> DomainRef(domain, "func", contnode)],
                   [name |-> <<"py", ":", "meth">>,
                    node |-> DomainRef(domain, "meth", contnode)] >>]
  ELSE IF domain.name = "py" /\ target = TgtDBoom
  THEN [exc |-> "Other", res |-> <<>>]
  ELSE [exc |-> "none", res |-> <<>>]

\* domain.resolve_xref(env, refdoc, builder, role, target, node, contnode): [exc, node]
resolve_xref(domain, role, target, contnode) ==
  IF domain.name = "ext" /\ role = "r2" /\ target = TgtX
  THEN [exc |-> "none", node |-> DomainRef(domain, role, contnode)]
  ELSE IF domain.name = "ext" /\ role = "r1" /\ target = TgtRole
  THEN [exc |-> "none", node |-> DomainTextRef(domain, role)]
  ELSE IF domain.name = "ext" /\ role = "r2" /\ target = TgtRole
  THEN [exc |-> "none", node |-> DomainOwnRef(domain, role)]
  ELSE IF domain.name = "old" /\ target = TgtX
  THEN [exc |-> "none", node |-> DomainRef(domain, role, contnode)]
  ELSE IF domain.name = "ext" /\ role = "r1" /\ target = TgtDNoUri
  THEN [exc |-> "NoUri", node |-> NoneNode]
  ELSE [exc |-> "none", node |-> NoneNode]

\* the listeners of the "missing-reference" event, in the order they are called
Handlers == <<"h1", "h2">>

\* what a handler builds: an external reference around the content node
HandlerRef(h, contnode) ==
  [tag |-> "reference", refid |-> <<>>, refuri |-> <<"inv", "/", h>>,
   children |-> <<contnode>>]

\* listener.handler(app, env, node, contnode): [exc, node]; like intersphinx, a
\* handler only looks at references of type "any"
CallHandler(h, node, contnode) ==
  IF node.reftype # "any" THEN [exc |-> "none", node |-> NoneNode]
  ELSE IF node.reftarget = TgtExt12 \/ (node.reftarget = TgtExt2 /\ h = "h2")
  THEN [exc |-> "none", node |-> HandlerRef(h, contnode)]
  ELSE IF node.reftarget = TgtHNoUri /\ h = "h2"
  THEN [exc |-> "NoUri", node |-> NoneNode]
  ELSE IF node.reftarget = TgtHBoom /\ h = "h1"
  THEN [exc |-> "Other", node |-> NoneNode]
  ELSE [exc |-> "none", node |-> NoneNode]

-----------------------------------------------------------------------------
(* The resolution strategies                                                *)

\* node.get("refdoc", default)
GetRefdoc(node, default) == IF "refdoc" \in DOMAIN node THEN node.refdoc ELSE default

\* the label is the text of the node, as sphinx.domains.std builds it
RefNestedFlat(node, fromdocname, t) ==
  IF node.refexplicit
  THEN IF t \notin DOMAIN anonlabels THEN [exc |-> "none", node |-> NoneNode]
       ELSE make_refnode(fromdocname, anonlabels[t].docname, anonlabels[t].labelid,
                         inline(astext(node), <<>>))
  ELSE IF t \notin DOMAIN labels THEN [exc |-> "none", node |-> NoneNode]
       ELSE make_refnode(fromdocname, labels[t].docname, labels[t].labelid,
                         inline(labels[t].sectname, <<>>))

\* _resolve_ref_nested, lines 233-250, for the key t: an explicit reference is
\* looked up among the anonymous labels and keeps the children of node[0], any
\* other among the named labels and shows the section name
RefNested(node, fromdocname, t) ==
  IF node.refexplicit
  THEN IF t \notin DOMAIN anonlabels THEN [exc |-> "none", node |-> NoneNode]
       ELSE make_refnode(fromdocname, anonlabels[t].docname, anonlabels[t].labelid,
                         Extend(inline(<<>>, <<>>), node.children[1].children))
  ELSE IF t \notin DOMAIN labels THEN [exc |-> "none", node |-> NoneNode]
       ELSE make_refnode(fromdocname, labels[t].docname, labels[t].labelid,
                         inline(labels[t].sectname, <<>>))

\* _resolve_ref_nested(node, fromdocname, target=None): [exc, node]
resolve_ref_nested(node, fromdocname, target) ==
  RefNested(node, fromdocname,
            IF target # <<>> THEN target ELSE Lower(node.reftarget))

\* _resolve_anchor, lines 214-222: the registry key of the anchor
AnchorKey(node, fromdocname, rel_path, anchor) ==
  (IF rel_path = <<".">>
   THEN doc2path(GetRefdoc(node, fromdocname))
   ELSE normpath(PathJoin(PathJoin(GetRefdoc(node, fromdocname), <<"..">>), rel_path)))
    \o <<"#">> \o anchor

\* _resolve_anchor(node, fromdocname): [exc, node]
resolve_anchor(node, fromdocname, config) ==
  IF config.myst_heading_anchors = {} THEN [exc |-> "none", node |-> NoneNode]
  ELSE IF ~Contains(node.reftarget, "#") THEN [exc |-> "none", node |-> NoneNode]
  ELSE resolve_ref_nested(node, fromdocname,
                          AnchorKey(node, fromdocname,
                                    normpath(RSplitHash(node.reftarget).head),
                                    RSplitHash(node.reftarget).tail))

\* _resolve_doc_nested, lines 264-268: a known source suffix is stripped once
StripSuffix(docname) ==
  IF docname \notin all_docs /\ splitext(docname).ext \in source_suffix
  THEN splitext(docname).root
  ELSE docname

\* _resolve_doc_nested, lines 269-283
DocNested(node, fromdocname, docname) ==
  IF docname \notin all_docs THEN [exc |-> "none", node |-> NoneNode]
  ELSE make_refnode(fromdocname, docname, <<>>,
                    IF node.refexplicit
                    THEN Extend(inline(<<>>, <<<<"doc">>>>), node.children[1].children)
                    ELSE inline(titles(docname), <<<<"doc">>>>))

\* _resolve_doc_nested(node, fromdocname): [exc, node]
resolve_doc_nested(node, fromdocname) ==
  DocNested(node, fromdocname,
            StripSuffix(docname_join(GetRefdoc(node, fromdocname), node.reftarget)))

-----------------------------------------------------------------------------
(* resolve_myst_ref: the candidates are collected in one list, in the order *)
(* the strategies run.  An accumulator is [exc, results, trace]: the        *)
(* exception in flight ("none" when there is none), the (name, node) list   *)
(* and the calls made so far.  A candidate also records the strategy that   *)
(* produced it (via).                                                       *)

Call(op, dom, role) == [op |-> op, dom |-> dom, role |-> role]

\* the calls so far, then the exception a capability raised
Raised(t, who, e) == Append(t, Call("raise", who, e))

Cand(name, n, via) == [name |-> name, node |-> n, via |-> via]

\* the allow-list is not consulted
DomainAlwaysAllowed(config, name) == TRUE

\* "ref_domains is None or name in ref_domains"; an optional value is a set with
\* at most one element
DomainAllowed(config, name) ==
  \/ config.myst_ref_domains = {}
  \/ \E l \in config.myst_ref_domains : Contains(l, name)

\* lines 115-117: the document
AfterDoc(res1, t, d) ==
  IF d.exc # "none"
  THEN [exc |-> d.exc, results |-> res1, trace |-> Raised(t, "builder", d.exc)]
  ELSE [exc |-> "none",
        results |-> IF IsNone(d.node) THEN res1
                    ELSE Append(res1, Cand(<<"std", ":", "doc">>, d.node, "doc")),
        trace |-> t]

\* lines 110-117: the named label, then the document
AfterLabel(node, refdoc, t, r) ==
  IF r.exc # "none"
  THEN [exc |-> r.exc, results |-> <<>>, trace |-> Raised(t, "builder", r.exc)]
  ELSE AfterDoc(IF IsNone(r.node) THEN <<>>
                ELSE <<Cand(<<"std", ":", "ref">>, r.node, "label")>>,
                Append(t, Call("doc", "std", "doc")),
                resolve_doc_nested(node, refdoc))

\* the label and the document are looked up after a successful anchor as well
AfterAnchorNoSkip(node, refdoc, t, a) ==
  IF a.exc # "none"
  THEN [exc |-> a.exc, results |-> <<>>, trace |-> Raised(t, "builder", a.exc)]
  ELSE [AfterLabel(node, refdoc, Append(t, Call("label", "std", "ref")),
                   resolve_ref_nested(node, refdoc, <<>>))
          EXCEPT !.results = (IF IsNone(a.node) THEN <<>>
                              ELSE <<Cand(<<"std", ":", "doc">>, a.node, "anchor")>>) \o @]

\* lines 103-117: an anchored document is the only std:ref/std:doc candidate
AfterAnchor(node, refdoc, t, a) ==
  IF a.exc # "none"
  THEN [exc |-> a.exc, results |-> <<>>, trace |-> Raised(t, "builder", a.exc)]
  ELSE IF ~IsNone(a.node)
  THEN [exc |-> "none",
        results |-> <<Cand(<<"std", ":", "doc">>, a.node, "anchor")>>,
        trace |-> t]
  ELSE AfterLabel(node, refdoc, Append(t, Call("label", "std", "ref")),
                  resolve_ref_nested(node, refdoc, <<>>))

\* lines 102-117: the anchor, else the named label and the document
ResolveStdRefs(node, refdoc, config) ==
  AfterAnchor(node, refdoc, <<Call("anchor", "std", "doc")>>,
              resolve_anchor(node, refdoc, config))

\* lines 127-137: the objects of the standard domain, one object type after another
RECURSIVE ResolveStdObjects(_, _, _, _, _)
ResolveStdObjects(acc, k, target, refdoc, contnode) ==
  IF acc.exc # "none" \/ k > Len(object_types) THEN acc
  ELSE LET objtype == object_types[k]
           key == IF objtype = "term" THEN <<objtype, Lower(target)>>
                  ELSE <<objtype, target>>
           t == Append(acc.trace, Call("object", "std", objtype))
       IN  IF key \notin DOMAIN objects
           THEN ResolveStdObjects([acc EXCEPT !.trace = t], k + 1, target, refdoc, contnode)
           ELSE LET m == make_refnode(refdoc, objects[key].docname,
                                      objects[key].labelid, contnode)
                    domain_role == <<"std", ":", role_for_objtype(objtype)>>
                IN  IF m.exc # "none"
                    THEN [acc EXCEPT !.exc = m.exc, !.trace = Raised(t, "builder", m.exc)]
                    ELSE ResolveStdObjects(
                           [acc EXCEPT !.trace = t,
                                       !.results = Append(@, Cand(domain_role, m.node,
                                                                  "object"))],
                           k + 1, target, refdoc, contnode)

\* NoUri from a role lookup counts as "no candidate from that attempt"
RECURSIVE ResolveRolesSwallow(_, _, _, _, _)
ResolveRolesSwallow(acc, domain, r, target, contnode) ==
  IF acc.exc # "none" \/ r > Len(domain.roles) THEN acc
  ELSE LET role == domain.roles[r]
           res == resolve_xref(domain, role, target, contnode)
           t == Append(acc.trace, Call("xref", domain.name, role))
       IN  IF res.exc = "NoUri"
           THEN ResolveRolesSwallow([acc EXCEPT !.trace = Raised(t, domain.name, res.exc)],
                                    domain, r + 1, target, contnode)
           ELSE IF res.exc # "none"
           THEN [acc EXCEPT !.exc = res.exc, !.trace = Raised(t, domain.name, res.exc)]
           ELSE IF /\ ~IsNone(res.node)
                   /\ Len(res.node.children) > 0
                   /\ IsElement(res.node.children[1])
           THEN ResolveRolesSwallow(
                  [acc EXCEPT !.trace = t,
                              !.results = Append(@, Cand(<<domain.name, ":", role>>,
                                                         res.node, "domain"))],
                  domain, r + 1, target, contnode)
           ELSE ResolveRolesSwallow([acc EXCEPT !.trace = t], domain, r + 1, target,
                                    contnode)

\* lines 162-167: the roles of a domain without resolve_any_xref, one after another
RECURSIVE ResolveRoles(_, _, _, _, _)
ResolveRoles(acc, domain, r, target, contnode) ==
  IF acc.exc # "none" \/ r > Len(domain.roles) THEN acc
  ELSE LET role == domain.roles[r]
           res == resolve_xref(domain, role, target, contnode)
           t == Append(acc.trace, Call("xref", domain.name, role))
       IN  IF res.exc # "none"
           THEN [acc EXCEPT !.exc = res.exc, !.trace = Raised(t, domain.name, res.exc)]
           ELSE IF /\ ~IsNone(res.node)
                   /\ Len(res.node.children) > 0
                   /\ IsElement(res.node.children[1])
           THEN ResolveRoles(
                  [acc EXCEPT !.trace = t,
                              !.results = Append(@, Cand(<<domain.name, ":", role>>,
                                                         res.node, "domain"))],
                  domain, r + 1, target, contnode)
           ELSE ResolveRoles([acc EXCEPT !.trace = t], domain, r + 1, target, contnode)

RECURSIVE TagDomain(_)
TagDomain(res) ==
  IF res = <<>> THEN <<>>
  ELSE <<Cand(res[1].name, res[1].node, "domain")>> \o TagDomain(Tail(res))

\* lines 140-167: every other domain, in the order of env.domains
RECURSIVE ResolveDomains(_, _, _, _, _)
ResolveDomains(acc, k, target, contnode, config) ==
  IF acc.exc # "none" \/ k > Len(Domains) THEN acc
  ELSE LET domain == Domains[k]
       IN  IF domain.name = "std"
           THEN ResolveDomains(acc, k + 1, target, contnode, config)
           ELSE IF ~DomainAllowed(config, domain.name)
           THEN ResolveDomains(acc, k + 1, target, contnode, config)
           ELSE LET any == resolve_any_xref(domain, target, contnode)
                    t == Append(acc.trace, Call("any", domain.name, ""))
                IN  IF any.exc = "none"
                    THEN ResolveDomains(
                           [acc EXCEPT !.trace = t,
                                       !.results = @ \o TagDomain(any.res)],
                           k + 1, target, contnode, config)
                    ELSE IF any.exc = "NotImplemented"
                    THEN LET tw == IF ModuleStartsWithSphinx(domain) THEN t
                                   ELSE Append(t, Call("warning", domain.name, ""))
                         IN  ResolveDomains(
                               ResolveRoles([acc EXCEPT !.trace = tw], domain, 1,
                                            target, contnode),
                               k + 1, target, contnode, config)
                    ELSE [acc EXCEPT !.exc = any.exc,
                                     !.trace = Raised(t, domain.name, any.exc)]

\* lines 174-176
stringify(name, n) == <<":">> \o name \o <<":", "'">> \o astext(n) \o <<"'">>

RECURSIVE Candidates(_)
Candidates(results) ==
  IF results = <<>> THEN <<>>
  ELSE <<stringify(results[1].name, results[1].node)>> \o Candidates(Tail(results))

\* lines 189-197: the first result, its first child tagged with the role's classes
\* the last result instead of the first
SelectLast(results) == results[Len(results)]

SelectFirst(results) == results[1]

StyledNode(cand) ==
  LET res_role == cand.name
      res_domain == SplitOn(res_role, ":")[1]
      newnode == cand.node
  IN  IF Len(newnode.children) > 0 /\ IsElement(newnode.children[1])
      THEN [newnode EXCEPT !.children[1].classes =
                              @ \o <<res_domain, ReplaceColon(res_role)>>]
      ELSE newnode

\* lines 169-199: None without a result, else the first one
SelectResult(acc) ==
  [exc |-> acc.exc,
   results |-> acc.results,
   trace |-> acc.trace,
   ambiguous |-> acc.exc = "none" /\ Len(acc.results) > 1,
   newnode |-> IF acc.exc # "none" \/ acc.results = <<>> THEN NoneNode
               ELSE StyledNode(SelectFirst(acc.results))]

\* lines 119-137: the standard domain's objects, when "std" is an allowed domain
ResolveStd(acc, target, refdoc, contnode, config) ==
  IF DomainAllowed(config, "std")
  THEN ResolveStdObjects(acc, 1, target, refdoc, contnode)
  ELSE acc

\* resolve_myst_ref(refdoc, node, contnode):
\* [exc, newnode, results, trace, ambiguous]
resolve_myst_ref(refdoc, node, contnode, config) ==
  SelectResult(
    ResolveDomains(
      ResolveStd(ResolveStdRefs(node, refdoc, config),
                 node.reftarget, refdoc, contnode, config),
      1, node.reftarget, contnode, config))

-----------------------------------------------------------------------------
(* The state of one run() over a document                                   *)

VARIABLES
  config,    \* env.config: myst_heading_anchors, myst_ref_domains
  tree,      \* the pending_xref positions of the document reached so far, each
             \* holding the node that is in the tree at that position
  replaced,  \* history: the number of replace_self calls at each position
  node,      \* run(): the loop variable
  contnode,  \* run(): the deep copy of node[0]
  newnode,   \* run(): the resolved node, NoneNode for None
  results,   \* resolve_myst_ref(): the candidate list of the last call
  trace,     \* the strategy, domain and logger calls of the last resolve_myst_ref()
  hidx,      \* emit(): the index of the next listener
  hres,      \* emit(): the results of the listeners called so far
  seen,      \* history: the reftype each listener saw
  exc,       \* the exception in flight, "none" when there is none
  caught,    \* history: the exception the except clause caught for this node
  pc,        \* the position of run()
  diags,     \* the warnings the logger has emitted
  warned     \* the logger's once-filter: the messages logged with once=True

vars == <<config, tree, replaced, node, contnode, newnode, results, trace,
          hidx, hres, seen, exc, caught, pc, diags, warned>>

\* docs/conf.py: myst_heading_anchors
conf_myst_heading_anchors == 2

\* env.docname
env_docname == DocA

Configs ==
  [myst_heading_anchors : {{}, {conf_myst_heading_anchors}},
   myst_ref_domains : {{}, {<<"ext">>}},
   nitpicky : BOOLEAN]

Init ==
  /\ config \in Configs
  /\ tree = <<>>
  /\ replaced = <<>>
  /\ node = NoneNode
  /\ contnode = NoneNode
  /\ newnode = NoneNode
  /\ results = <<>>
  /\ trace = <<>>
  /\ hidx = 1
  /\ hres = <<>>
  /\ seen = <<>>
  /\ exc = "none"
  /\ caught = "none"
  /\ pc = "next"
  /\ diags = <<>>
  /\ warned = {}

\* the position of the loop variable in the tree
pos == Len(tree)

Diag(kind, at, target, detail) ==
  [kind |-> kind, pos |-> at, target |-> target, detail |-> detail]

\* logger.warning without once=True: every message is let through
NoOnceFilter(msgs, logged) == msgs

\* logger.warning(..., once=True): the messages the once-filter lets through
RECURSIVE OnceFilter(_, _)
OnceFilter(msgs, logged) ==
  IF msgs = <<>> THEN <<>>
  ELSE IF Head(msgs) \in logged THEN OnceFilter(Tail(msgs), logged)
  ELSE <<Head(msgs)>> \o OnceFilter(Tail(msgs), logged \cup {Head(msgs)})

\* the domains a call list logs the "has not implemented resolve_any_xref" warning for
RECURSIVE WarningCalls(_)
WarningCalls(calls) ==
  IF calls = <<>> THEN <<>>
  ELSE IF Head(calls).op = "warning"
  THEN <<Head(calls).dom>> \o WarningCalls(Tail(calls))
  ELSE WarningCalls(Tail(calls))

\* line 40, a node of reftype "myst": lines 44-49
Yield ==
  /\ pc = "next"
  /\ Len(tree) < MaxNodes
  /\ \E p \in Placeholders :
       /\ p.reftype = "myst"
       /\ tree' = Append(tree, p)
       /\ node' = p
       /\ contnode' = p.children[1]
  /\ replaced' = Append(replaced, 0)
  /\ newnode' = NoneNode
  /\ results' = <<>>
  /\ trace' = <<>>
  /\ hidx' = 1
  /\ hres' = <<>>
  /\ seen' = <<>>
  /\ caught' = "none"
  /\ pc' = "resolve"
  /\ UNCHANGED <<config, exc, diags, warned>>

\* lines 40-42, a node of another reftype: continue
Skip ==
  /\ pc = "next"
  /\ Len(tree) < MaxNodes
  /\ \E p \in Placeholders :
       /\ p.reftype # "myst"
       /\ tree' = Append(tree, p)
       /\ node' = p
  /\ replaced' = Append(replaced, 0)
  /\ results' = <<>>
  /\ trace' = <<>>
  /\ hidx' = 1
  /\ hres' = <<>>
  /\ seen' = <<>>
  /\ caught' = "none"
  /\ UNCHANGED <<config, contnode, newnode, exc, pc, diags, warned>>

\* line 40: the traversal is exhausted, run() returns
Finish ==
  /\ pc = "next"
  /\ pc' = "done"
  /\ UNCHANGED <<config, tree, replaced, node, contnode, newnode, results,
                 trace, hidx, hres, seen, exc, caught, diags, warned>>

\* the warnings of one resolve_myst_ref call: the once-filtered domain warnings,
\* then the ambiguity warning of lines 172-187
ResolveWarnings(r, emitted) ==
  [k \in 1..Len(emitted) |-> Diag("noncompliant", pos, <<>>, <<emitted[k]>>)]
    \o (IF r.ambiguous
        THEN <<Diag("ambiguous", pos, node.reftarget, Candidates(r.results))>>
        ELSE <<>>)

\* line 52 with the result r of the call
Resolved(r, emitted) ==
  /\ results' = r.results
  /\ trace' = r.trace
  /\ warned' = warned \cup {emitted[k] : k \in 1..Len(emitted)}
  /\ diags' = diags \o ResolveWarnings(r, emitted)
  /\ exc' = r.exc
  /\ newnode' = r.newnode
  /\ pc' = IF r.exc # "none" THEN "except"
           ELSE IF IsNone(r.newnode) THEN "missing"
           ELSE "found"

ResolvedOnce(r) == Resolved(r, OnceFilter(WarningCalls(r.trace), warned))

\* line 52: newnode = self.resolve_myst_ref(refdoc, node, contnode)
ResolveMystRef ==
  /\ pc = "resolve"
  /\ ResolvedOnce(resolve_myst_ref(GetRefdoc(node, env_docname), node, contnode, config))
  /\ UNCHANGED <<config, tree, replaced, node, contnode, hidx, hres, seen, caught>>

\* lines 53-57: nothing found, node["reftype"] = "any"
Reclassify ==
  /\ pc = "missing"
  /\ node' = [node EXCEPT !.reftype = "any"]
  /\ tree' = [tree EXCEPT ![pos] = node']
  /\ hidx' = 1
  /\ hres' = <<>>
  /\ pc' = "emit"
  /\ UNCHANGED <<config, replaced, contnode, newnode, results, trace, seen, exc,
                 caught, diags, warned>>

\* lines 59-69, EventManager.emit: the next listener is called; NoUri is an allowed
\* exception and passes through, any other exception leaves as an ExtensionError
CallListener ==
  /\ pc = "emit"
  /\ hidx <= Len(Handlers)
  /\ LET r == CallHandler(Handlers[hidx], node, contnode)
     IN  /\ seen' = Append(seen, node.reftype)
         /\ trace' = IF r.exc = "none"
                     THEN Append(trace, Call("listener", Handlers[hidx], ""))
                     ELSE Raised(Append(trace, Call("listener", Handlers[hidx], "")),
                                 Handlers[hidx], r.exc)
         /\ exc' = r.exc
         /\ hres' = IF r.exc = "none" THEN Append(hres, r.node) ELSE hres
         /\ hidx' = hidx + 1
         /\ pc' = IF r.exc = "none" THEN "emit" ELSE "finally"
  /\ UNCHANGED <<config, tree, replaced, node, contnode, newnode, results, caught,
                 diags, warned>>

\* EventManager.emit_firstresult: the first result that is not None
RECURSIVE firstresult(_)
firstresult(rs) ==
  IF rs = <<>> THEN NoneNode
  ELSE IF ~IsNone(Head(rs)) THEN Head(rs)
  ELSE firstresult(Tail(rs))

\* lines 59-69: every listener has returned
FirstResult ==
  /\ pc = "emit"
  /\ hidx > Len(Handlers)
  /\ newnode' = firstresult(hres)
  /\ pc' = "finally"
  /\ UNCHANGED <<config, tree, replaced, node, contnode, results, trace, hidx,
                 hres, seen, exc, caught, diags, warned>>

\* the reftype is restored after the call only, without try/finally
FinallyOnReturn ==
  /\ pc = "finally"
  /\ node' = IF exc = "none" THEN [node EXCEPT !.reftype = "myst"] ELSE node
  /\ tree' = [tree EXCEPT ![pos] = node']
  /\ pc' = IF exc # "none" THEN "except" ELSE "found"
  /\ UNCHANGED <<config, replaced, contnode, newnode, results, trace, hidx, hres,
                 seen, exc, caught, diags, warned>>

\* lines 70-71: finally, node["reftype"] = "myst"
Finally ==
  /\ pc = "finally"
  /\ node' = [node EXCEPT !.reftype = "myst"]
  /\ tree' = [tree EXCEPT ![pos] = node']
  /\ pc' = IF exc # "none" THEN "except" ELSE "found"
  /\ UNCHANGED <<config, replaced, contnode, newnode, results, trace, hidx, hres,
                 seen, exc, caught, diags, warned>>

\* lines 72-80, ReferencesResolver.warn_missing_reference(refdoc, typ, target,
\* node, domain): "warn if node wishes to be warned about or we are in nit-picky
\* mode"
warn_missing_reference(typ, target, nd, at) ==
  IF nd.refwarn \/ config.nitpicky
  THEN <<Diag("unresolved", at, target, <<typ>>)>>
  ELSE <<>>

\* lines 74-80 without the call of warn_missing_reference
WarnMissingSilent ==
  /\ pc = "found"
  /\ IsNone(newnode)
  /\ node' = [node EXCEPT !.refdomain = ""]
  /\ tree' = [tree EXCEPT ![pos] = node']
  /\ pc' = "replace"
  /\ UNCHANGED <<config, replaced, contnode, newnode, results, trace, hidx, hres,
                 seen, exc, caught, diags, warned>>

\* lines 74-80: still not found
WarnMissing ==
  /\ pc = "found"
  /\ IsNone(newnode)
  /\ node' = [node EXCEPT !.refdomain = ""]
  /\ tree' = [tree EXCEPT ![pos] = node']
  /\ diags' = diags \o warn_missing_reference(node'.reftype, node.reftarget, node',
                                              pos)
  /\ pc' = "replace"
  /\ UNCHANGED <<config, replaced, contnode, newnode, results, trace, hidx, hres,
                 seen, exc, caught, warned>>

\* without the except clause NoUri leaves run() like any other exception
CatchNothing ==
  /\ pc = "except"
  /\ exc = "NoUri"
  /\ pc' = "raised"
  /\ UNCHANGED <<config, tree, replaced, node, contnode, newnode, results, trace,
                 hidx, hres, seen, exc, caught, diags, warned>>

\* lines 81-82: except NoUri
CatchNoUri ==
  /\ pc = "except"
  /\ exc = "NoUri"
  /\ newnode' = contnode
  /\ exc' = "none"
  /\ caught' = "NoUri"
  /\ pc' = "replace"
  /\ UNCHANGED <<config, tree, replaced, node, contnode, results, trace, hidx,
                 hres, seen, diags, warned>>

\* any other exception leaves run()
Propagate ==
  /\ pc = "except"
  /\ exc # "NoUri"
  /\ pc' = "raised"
  /\ UNCHANGED <<config, tree, replaced, node, contnode, newnode, results, trace,
                 hidx, hres, seen, exc, caught, diags, warned>>

\* the node is replaced only when a new node was found
ReplaceIfResolved ==
  /\ \/ pc = "replace"
     \/ pc = "found" /\ ~IsNone(newnode)
  /\ tree' = IF IsNone(newnode) THEN tree ELSE [tree EXCEPT ![pos] = newnode]
  /\ replaced' = IF IsNone(newnode) THEN replaced ELSE [replaced EXCEPT ![pos] = @ + 1]
  /\ pc' = "next"
  /\ UNCHANGED <<config, node, contnode, newnode, results, trace, hidx, hres,
                 seen, exc, caught, diags, warned>>

\* line 84: node.replace_self(newnode or contnode)
ReplaceSelf ==
  /\ \/ pc = "replace"
     \/ pc = "found" /\ ~IsNone(newnode)
  /\ tree' = [tree EXCEPT ![pos] = IF IsNone(newnode) THEN contnode ELSE newnode]
  /\ replaced' = [replaced EXCEPT ![pos] = @ + 1]
  /\ pc' = "next"
  /\ UNCHANGED <<config, node, contnode, newnode, results, trace, hidx, hres,
                 seen, exc, caught, diags, warned>>

Next ==
  \/ Yield
  \/ Skip
  \/ Finish
  \/ ResolveMystRef
  \/ Reclassify
  \/ CallListener
  \/ FirstResult
  \/ Finally
  \/ WarnMissing
  \/ CatchNoUri
  \/ Propagate
  \/ ReplaceSelf

Spec == Init /\ [][Next]_vars

\* ---------------------------------------------------------------------------
\* Properties of run()

\* the node at the current position has just been replaced
JustReplaced == pc \in {"next", "done"} /\ pos > 0 /\ replaced[pos] = 1

\* the call of resolve_myst_ref for the current node has returned a value
Returned == pc \in {"found", "replace", "next", "done"} /\ caught = "none"

HasCall(op) == \E k \in 1..Len(trace) : trace[k].op = op

CountAt(kind) ==
  Cardinality({k \in 1..Len(diags) : diags[k].kind = kind /\ diags[k].pos = pos})

NoUriSignalled ==
  \E k \in 1..Len(trace) : trace[k].op = "raise" /\ trace[k].role = "NoUri"

AnchorSucceeded == results # <<>> /\ results[1].via = "anchor"

\* C1: when run() has gone through the document, every placeholder of reftype
\* "myst" has been replaced exactly once and none is left; a replaced slot holds a
\* resolved reference or the placeholder's own content, and no slot is ever
\* replaced twice.
C1_ReplacedExactlyOnce ==
  /\ \A k \in 1..Len(tree) : replaced[k] <= 1
  /\ pc \in {"next", "done"} =>
       \A k \in 1..Len(tree) :
         IF tree[k].tag = "pending_xref"
         THEN tree[k].reftype # "myst" /\ replaced[k] = 0
         ELSE replaced[k] = 1 /\ tree[k].tag \in {"reference", "inline"}
  /\ JustReplaced => tree[pos] = node.children[1] \/ tree[pos].tag = "reference"

C1_Witness ==
  /\ pc = "done"
  /\ Len(tree) = 2
  /\ tree[1].tag = "reference"
  /\ tree[2] = node.children[1]
  /\ caught = "NoUri"
  /\ replaced = <<1, 1>>

\* C2 as stated: after a successful anchor lookup the anchor candidate is the only
\* candidate, no lower-priority strategy (label, document, standard objects, other
\* domains) is attempted and no ambiguity is reported.
C2_Original ==
  AnchorSucceeded =>
    /\ Len(results) = 1
    /\ ~HasCall("label") /\ ~HasCall("doc")
    /\ ~HasCall("object") /\ ~HasCall("any") /\ ~HasCall("xref")
    /\ CountAt("ambiguous") = 0

\* C2: after a successful anchor lookup the label and the document lookup are
\* skipped; the anchor candidate is the first candidate, every further candidate
\* comes from the standard objects or from another domain, the anchor candidate is
\* the one returned, and the ambiguity is reported exactly when there are further
\* candidates.
C2_AnchorSkipsLabelAndDoc ==
  AnchorSucceeded =>
    /\ ~HasCall("label") /\ ~HasCall("doc")
    /\ \A k \in 2..Len(results) : results[k].via \in {"object", "domain"}
    /\ Returned => newnode = StyledNode(results[1])
    /\ Returned => (CountAt("ambiguous") = 1 <=> Len(results) > 1)
    /\ Returned /\ Len(results) = 1 => CountAt("ambiguous") = 0

C2_Witness ==
  /\ JustReplaced
  /\ AnchorSucceeded
  /\ Len(results) > 1
  /\ HasCall("any")
  /\ CountAt("ambiguous") = 1
  /\ tree[pos] = StyledNode(results[1])

\* the place of a strategy in the precedence anchor > label > document >
\* standard object > other domain
Tier(via) ==
  CASE via = "anchor" -> 1
    [] via = "label" -> 2
    [] via = "doc" -> 3
    [] via = "object" -> 4
    [] via = "domain" -> 5

\* the place of a candidate within its strategy: the object type of a standard
\* object, the domain of a domain candidate, in iteration order
SubOrder(c) ==
  IF c.via = "object"
  THEN CHOOSE i \in 1..Len(object_types) : role_for_objtype(object_types[i]) = c.name[3]
  ELSE IF c.via = "domain"
  THEN CHOOSE i \in 1..Len(Domains) : Domains[i].name = c.name[1]
  ELSE 0

Precedes(c, d) ==
  \/ Tier(c.via) < Tier(d.via)
  \/ Tier(c.via) = Tier(d.via) /\ SubOrder(c) <= SubOrder(d)

Swap(seq, i, j) ==
  [k \in 1..Len(seq) |-> IF k = i THEN seq[j] ELSE IF k = j THEN seq[i] ELSE seq[k]]

\* C3: when more than one candidate has been collected, the node returned is built
\* from a candidate that no other candidate precedes in the order anchor > label >
\* document > standard object > other domain (iteration order within a strategy),
\* and exchanging any two of the other candidates leaves the selection unchanged.
C3_FirstByPrecedence ==
  Returned /\ Len(results) > 1 =>
    /\ \E m \in 1..Len(results) :
         /\ newnode = StyledNode(results[m])
         /\ \A k \in 1..Len(results) : Precedes(results[m], results[k])
    /\ \A i, j \in 2..Len(results) :
         StyledNode(SelectFirst(Swap(results, i, j))) = newnode

C3_Witness ==
  /\ JustReplaced
  /\ Len(results) > 3
  /\ results[1].via = "label"
  /\ results[2].via = "doc"
  /\ \E k \in 3..Len(results) : results[k].via = "domain"
  /\ tree[pos] = StyledNode(results[1])
  /\ tree[pos] # StyledNode(results[2])

\* no strategy has a candidate and every handler has answered None
Unresolved ==
  /\ JustReplaced
  /\ results = <<>>
  /\ caught = "none"
  /\ Len(hres) = Len(Handlers)
  /\ \A k \in 1..Len(hres) : IsNone(hres[k])

\* C4 as stated: when nothing matches and no handler claims the target, the tree
\* holds the original content, unlinked, and exactly one "unresolved" diagnostic
\* names the target.
C4_Original ==
  Unresolved =>
    /\ tree[pos] = node.children[1]
    /\ CountAt("unresolved") = 1

\* C4: when nothing matches and no handler claims the target, the tree holds the
\* original content, unlinked; the "unresolved" diagnostic, naming the target and
\* the reftype "myst", is emitted exactly once when the placeholder is marked for
\* warning or the build is nit-picky, and not at all otherwise; no ambiguity is
\* reported.
C4_UnresolvedKeepsContent ==
  Unresolved =>
    /\ tree[pos] = node.children[1]
    /\ tree[pos].tag = "inline"
    /\ CountAt("unresolved") = (IF node.refwarn \/ config.nitpicky THEN 1 ELSE 0)
    /\ CountAt("ambiguous") = 0
    /\ \A k \in 1..Len(diags) :
         diags[k].kind = "unresolved" /\ diags[k].pos = pos =>
           diags[k].target = node.reftarget /\ diags[k].detail = <<"myst">>

C4_Witness ==
  /\ Unresolved
  /\ node.refwarn
  /\ CountAt("unresolved") = 1
  /\ tree[pos] = node.children[1]

\* C5: when a NoUri signal is raised while a placeholder is resolved (by a
\* strategy, a domain or a handler), the placeholder is replaced by its own
\* content and neither an "ambiguous" nor an "unresolved" diagnostic is emitted
\* for it, whatever candidates had been collected.
C5_NoUriDegradesSilently ==
  NoUriSignalled =>
    /\ pc \in {"replace", "next", "done"} => caught = "NoUri" /\ newnode = contnode
    /\ JustReplaced => tree[pos] = node.children[1]
    /\ pc \in {"next", "done"} => replaced[pos] = 1
    /\ CountAt("ambiguous") = 0
    /\ CountAt("unresolved") = 0

C5_Witness ==
  /\ JustReplaced
  /\ NoUriSignalled
  /\ Len(results) > 1
  /\ tree[pos] = node.children[1]
  /\ CountAt("ambiguous") = 0

\* C6 as stated: no failure of a domain or of a handler leaves run().
C6_Original == pc # "raised"

\* C6: of the failures of a domain or a handler, NoUri is contained: the placeholder
\* is replaced by its content and the pass goes on; a domain without
\* resolve_any_xref (NotImplementedError) is contained as well; any other exception
\* leaves run() with the placeholder still in the tree.
C6_OnlyNoUriIsCaught ==
  /\ exc # "NotImplemented"
  /\ NoUriSignalled => pc # "raised"
  /\ NoUriSignalled /\ pc \in {"next", "done"} => replaced[pos] = 1
  /\ pc = "raised" =>
       /\ exc = "Other"
       /\ \E k \in 1..Len(trace) : trace[k].op = "raise" /\ trace[k].role = "Other"
       /\ replaced[pos] = 0
       /\ tree[pos].tag = "pending_xref"

C6_Witness ==
  /\ pc = "next"
  /\ pos = 1
  /\ replaced[1] = 1
  /\ \E k \in 1..Len(trace) :
       trace[k] = [op |-> "raise", dom |-> "h2", role |-> "NoUri"]
  /\ tree[1] = node.children[1]
  /\ CountAt("unresolved") = 0

\* the handlers the "missing-reference" event has called, in call order
RECURSIVE ListenerCalls(_)
ListenerCalls(calls) ==
  IF calls = <<>> THEN <<>>
  ELSE IF Head(calls).op = "listener"
  THEN <<Head(calls).dom>> \o ListenerCalls(Tail(calls))
  ELSE ListenerCalls(Tail(calls))

FirstAnswer == CHOOSE m \in 1..Len(hres) : ~IsNone(hres[m]) /\ \A k \in 1..(m - 1) : IsNone(hres[k])

LabelOf(ref) == ref.children[1].children

\* C8 as stated: whichever strategy wins, the label of the node that replaces a
\* placeholder with an explicit label is the placeholder's nested content.
C8_Original ==
  JustReplaced /\ caught = "none" /\ node.refexplicit /\ results # <<>> =>
    LabelOf(tree[pos]) = LabelOf(node)

\* C8: when the anchor, the named label, the document or a standard-domain object
\* wins, the label of the node that replaces a placeholder with an explicit label
\* is the placeholder's nested content, node for node; another domain is handed the
\* copy of that content and the label is whatever the domain returns.
C8_NestedLabelPreserved ==
  JustReplaced /\ caught = "none" /\ node.refexplicit /\ results # <<>> =>
    /\ results[1].via \in {"anchor", "label", "doc", "object"} =>
         /\ LabelOf(tree[pos]) = NestedContent
         /\ LabelOf(tree[pos]) = LabelOf(node)
         /\ tree[pos].children[1].tag = "inline"
    /\ results[1].via = "domain" =>
         /\ contnode = node.children[1]
         /\ tree[pos] = StyledNode(results[1])

C8_Witness ==
  /\ JustReplaced
  /\ node.refexplicit
  /\ results # <<>>
  /\ results[1].via = "label"
  /\ LabelOf(tree[pos]) = NestedContent
  /\ astext(tree[pos]) # labels[Lower(node.reftarget)].sectname

\* the allowed domains other than "std" that lack resolve_any_xref
Lacking ==
  {k \in 2..Len(Domains) :
     /\ ~Domains[k].implements
     /\ \A l \in config.myst_ref_domains : Contains(l, Domains[k].name)}

NoncompliantCount(name) ==
  Cardinality({k \in 1..Len(diags) :
                 diags[k].kind = "noncompliant" /\ diags[k].detail = <<name>>})

Reached(name) == \E k \in 1..Len(trace) : trace[k] = Call("any", name, "")

RaisedBy(name) == \E k \in 1..Len(trace) : trace[k].op = "raise" /\ trace[k].dom = name

\* the roles a domain was asked for, in call order
RECURSIVE XrefCalls(_, _)
XrefCalls(calls, name) ==
  IF calls = <<>> THEN <<>>
  ELSE IF Head(calls).op = "xref" /\ Head(calls).dom = name
  THEN <<Head(calls).role>> \o XrefCalls(Tail(calls), name)
  ELSE XrefCalls(Tail(calls), name)

\* the roles of a domain's candidates, in list order
RECURSIVE RolesOf(_, _)
RolesOf(cands, name) ==
  IF cands = <<>> THEN <<>>
  ELSE IF Head(cands).via = "domain" /\ Head(cands).name[1] = name
  THEN <<Head(cands).name[3]>> \o RolesOf(Tail(cands), name)
  ELSE RolesOf(Tail(cands), name)

\* the roles whose lookup accepts(role) holds for, in role order
RECURSIVE RolesWhere(_, _, _)
RolesWhere(domain, r, accepts) ==
  IF r > Len(domain.roles) THEN <<>>
  ELSE (IF accepts[domain.roles[r]] THEN <<domain.roles[r]>> ELSE <<>>)
         \o RolesWhere(domain, r + 1, accepts)

Found(domain) ==
  [role \in {domain.roles[r] : r \in 1..Len(domain.roles)} |->
     ~IsNone(resolve_xref(domain, role, node.reftarget, contnode).node)]

FoundElement(domain) ==
  [role \in {domain.roles[r] : r \in 1..Len(domain.roles)} |->
     LET res == resolve_xref(domain, role, node.reftarget, contnode).node
     IN  ~IsNone(res) /\ Len(res.children) > 0 /\ IsElement(res.children[1])]

IsPrefix(s, t) == Len(s) <= Len(t) /\ s = SubSeq(t, 1, Len(s))

\* C9 as stated: a domain without resolve_any_xref is warned about at most once in
\* the pass (never when it is built in); each time it is reached it is asked once
\* for each of its roles, and every role lookup that finds a node is a candidate.
C9_Original ==
  \A k \in Lacking :
    /\ NoncompliantCount(Domains[k].name) <= 1
    /\ Domains[k].builtin => NoncompliantCount(Domains[k].name) = 0
    /\ Reached(Domains[k].name) =>
         /\ XrefCalls(trace, Domains[k].name) = Domains[k].roles
         /\ RolesOf(results, Domains[k].name) = RolesWhere(Domains[k], 1, Found(Domains[k]))

\* C9: a domain without resolve_any_xref is warned about exactly once in the pass,
\* the first time it is reached (never when it is built in); each time it is
\* reached it is asked for its roles in order, for every role unless a lookup
\* raises, which ends the resolution; when no lookup raises, its candidates are
\* the roles whose lookup returned a node whose first child is an element.
C9_PerRoleFallback ==
  \A k \in Lacking :
    /\ NoncompliantCount(Domains[k].name) <= 1
    /\ Domains[k].builtin => NoncompliantCount(Domains[k].name) = 0
    /\ Reached(Domains[k].name) /\ ~Domains[k].builtin =>
         NoncompliantCount(Domains[k].name) = 1
    /\ Reached(Domains[k].name) =>
         /\ IsPrefix(XrefCalls(trace, Domains[k].name), Domains[k].roles)
         /\ XrefCalls(trace, Domains[k].name) # <<>>
         /\ ~RaisedBy(Domains[k].name) =>
              /\ XrefCalls(trace, Domains[k].name) = Domains[k].roles
              /\ RolesOf(results, Domains[k].name)
                   = RolesWhere(Domains[k], 1, FoundElement(Domains[k]))

C9_Witness ==
  /\ pos = 2
  /\ JustReplaced
  /\ Reached("ext")
  /\ XrefCalls(trace, "ext") = <<"r1", "r2">>
  /\ RolesOf(results, "ext") = <<"r2">>
  /\ NoncompliantCount("ext") = 1
  /\ \E k \in 1..Len(diags) : diags[k].kind = "noncompliant" /\ diags[k].pos = 1

\* the domain is named on the configured list
Listed(name) == \E l \in config.myst_ref_domains : Contains(l, name)

\* the registry of named labels has the placeholder's target
LabelKnown ==
  IF node.refexplicit THEN Lower(node.reftarget) \in DOMAIN anonlabels
  ELSE Lower(node.reftarget) \in DOMAIN labels

\* C10: with a configured list of domains, only the domains on it are searched for
\* objects, contribute candidates or are warned about, and the objects of the
\* standard domain are searched only when "std" is on it; the anchor is looked up
\* first whatever the list, and when it does not succeed the named label and the
\* document are looked up whatever the list, a known label being the first
\* candidate and the one returned.
C10_AllowListGatesDomains ==
  /\ config.myst_ref_domains # {} =>
       /\ \A k \in 1..Len(trace) :
            trace[k].op \in {"object", "any", "xref", "warning"} => Listed(trace[k].dom)
       /\ \A k \in 1..Len(results) :
            results[k].via \in {"object", "domain"} => Listed(results[k].name[1])
       /\ \A k \in 1..Len(diags) :
            diags[k].kind = "noncompliant" => Listed(diags[k].detail[1])
  /\ trace # <<>> => trace[1] = Call("anchor", "std", "doc")
  /\ Len(trace) > 1 /\ ~AnchorSucceeded /\ trace[2].op # "raise" =>
       /\ trace[2] = Call("label", "std", "ref")
       /\ LabelKnown <=> results # <<>> /\ results[1].via = "label"
       /\ Len(trace) > 2 /\ trace[3].op # "raise" => trace[3] = Call("doc", "std", "doc")
       /\ Returned /\ LabelKnown => newnode = StyledNode(results[1])

C10_Witness ==
  /\ ~Listed("std")
  /\ config.myst_ref_domains # {}
  /\ JustReplaced
  /\ Len(results) > 2
  /\ results[1].via = "label"
  /\ results[2].via = "doc"
  /\ results[3].name[1] = "ext"
  /\ ~HasCall("object")
  /\ tree[pos] = StyledNode(results[1])

====
